---- MODULE Spec2Model ----
(***************************************************************************)
(* The research pipeline of the web research agent: WebResearchAgent       *)
(* .research() (agent-module.py) and the three components it calls,        *)
(* SerpApiSearchTool (search-tool-module.py), WebScraper                   *)
(* (scraper-module.py) and GeminiSummarizer (summarizer-module.py).        *)
(*                                                                         *)
(* The providers behind the components (the search endpoint, the fetched   *)
(* site, the generation service) are the environment: each call of a       *)
(* component draws the provider's behaviour from a small set, and the      *)
(* component's code, written as an operator, turns it into the value the   *)
(* component returns.  research() is one sequential thread; its position   *)
(* is pc, and there is one action per stretch of code that ends in a       *)
(* collaborator call (specification Spec).  Specification Components       *)
(* calls each component once on its own, with the requests it sent and the *)
(* waits it slept kept in the outcome.  Specification Terminating is       *)
(* research() under weak fairness, with the requests it causes counted.    *)
(* Specification Parallel is the concurrent extraction of the Streamlit    *)
(* application (web-research-agent_St.py): worker threads, the cache       *)
(* directory they share, and the thread that collects and summarizes.      *)
(***************************************************************************)
EXTENDS Integers, Sequences, FiniteSets, TLC

(***************************************************************************)
(* Python values.  A str is a sequence of chunks; a chunk [s, n] is the    *)
(* first n characters of the text named s.  A literal is one chunk of its  *)
(* full length; a page's text is a chunk of the page's name and length.    *)
(* None has the same shape as a str so that the two can be compared.       *)
(***************************************************************************)
Chunk(s, n) == [s |-> s, n |-> n]

Str(chunks) == [type |-> "str", v |-> chunks]

Lit(s) == Str(IF s = "" THEN <<>> ELSE <<Chunk(s, Len(s))>>)

Text(name, n) == Str(IF n = 0 THEN <<>> ELSE <<Chunk(name, n)>>)

None == [type |-> "NoneType", v |-> <<>>]

\* an int
PyInt(n) == [type |-> "int", v |-> n]

\* a + b on two str
Concat(a, b) == Str(a.v \o b.v)

RECURSIVE ChunksLen(_)
ChunksLen(cs) == IF cs = <<>> THEN 0 ELSE Head(cs).n + ChunksLen(Tail(cs))

\* len(x)
PyLen(x) == ChunksLen(x.v)

RECURSIVE ChunksPrefix(_, _)
ChunksPrefix(cs, k) ==
    IF cs = <<>> \/ k <= 0 THEN <<>>
    ELSE IF Head(cs).n <= k
         THEN <<Head(cs)>> \o ChunksPrefix(Tail(cs), k - Head(cs).n)
         ELSE <<Chunk(Head(cs).s, k)>>

\* x[:k]
Slice(x, k) == Str(ChunksPrefix(x.v, k))

\* bool(x) of a str or None
Truthy(x) ==
    \/ x.type = "str" /\ PyLen(x) > 0
    \/ x.type = "int" /\ x.v # 0

\* d.get(key, default) on a dict
Get(d, key, default) == IF key \in DOMAIN d THEN d[key] ELSE default

\* d[key] = value on a dict
Put(d, key, value) == (key :> value) @@ d

(***************************************************************************)
(* SerpApiSearchTool (search-tool-module.py).                              *)
(*                                                                         *)
(* What requests.get does on one attempt of search():                      *)
(*   kind = "exception": it raises (connection error, timeout);            *)
(*   kind = "http_error": it raises an HTTPError that carries no response  *)
(*     (e.response is None), as a test double of the HTTP layer can;       *)
(*   kind = "response":  it returns a response with status `code`, whose   *)
(*     body is "unparsable" (json() raises), "no_organic" (a JSON object   *)
(*     without organic_results) or "organic" (with organic_results =       *)
(*     `organic`, a list of dicts).                                        *)
(***************************************************************************)
SearchResponse(kind, code, body, organic) ==
    [kind |-> kind, code |-> code, body |-> body, organic |-> organic]

\* min(a, b)
Min(a, b) == IF a <= b THEN a ELSE b

\* the provider's cap on the result count
ProviderMaxResults == 10

\* search_params with the count sent as asked
search_params_unclamped(query, num_results) ==
    [q |-> query, engine |-> "google", num |-> num_results]

\* search(): the request parameters (api_key left out)
search_params(query, num_results) ==
    [q |-> query, engine |-> "google", num |-> Min(num_results, ProviderMaxResults)]

\* backoff with the same wait before every retry
backoff_constant(attempt) == 1

\* the wait before the retry that follows attempt `attempt`
backoff(attempt) == 2 ^ attempt

\* how one pass of the loop body of search() ends: search() returns `ret`,
\* or it sleeps and goes round again, or an exception leaves it
SearchReturn(v) == [next |-> "return", ret |-> v]

SearchRetry == [next |-> "retry", ret |-> <<>>]

SearchRaise == [next |-> "raise", ret |-> <<>>]

\* auth_error with the 401 handled as any other failure
auth_error_retried(attempt, max_retries) ==
    IF attempt < max_retries - 1 THEN SearchRetry ELSE SearchReturn(<<>>)

\* `if response.status_code == 401`
auth_error(attempt, max_retries) == SearchReturn(<<>>)

\* `except requests.exceptions.HTTPError as e`, e.response having status `code`
http_error_handler(code, attempt, max_retries) ==
    IF code = 429 /\ attempt < max_retries - 1
    THEN SearchRetry
    ELSE SearchReturn(<<>>)

\* exception_handler giving up at once
exception_handler_not_retried(attempt, max_retries) == SearchReturn(<<>>)

\* `except Exception as e`
exception_handler(attempt, max_retries) ==
    IF attempt < max_retries - 1 THEN SearchRetry ELSE SearchReturn(<<>>)

\* search(): one pass of the loop body, r being what the provider does on
\* it.  An HTTPError without a response makes the handler itself raise
\* (`e.response.status_code`).
search_attempt(r, attempt, max_retries) ==
    CASE r.kind = "exception" -> exception_handler(attempt, max_retries)
      [] r.kind = "http_error" -> SearchRaise
      [] r.kind = "response" /\ r.code = 401 -> auth_error(attempt, max_retries)
      [] r.kind = "response" /\ r.code # 401 /\ r.code >= 400 ->
             http_error_handler(r.code, attempt, max_retries)
      [] r.kind = "response" /\ r.code < 400 /\ r.body = "unparsable" ->
             exception_handler(attempt, max_retries)
      [] r.kind = "response" /\ r.code < 400 /\ r.body = "organic" ->
             SearchReturn(r.organic)
      [] OTHER -> SearchReturn(<<>>)

\* search(): the loop from `attempt` on, `resps[k + 1]` being what the
\* provider does on attempt k.  Returns the list, the number of requests
\* sent and the waits slept; `raised` when an exception left search()
\* instead.
RECURSIVE search_loop(_, _, _, _)
search_loop(resps, attempt, max_retries, sleeps) ==
    IF attempt >= max_retries
    THEN [ret |-> <<>>, requests |-> attempt, sleeps |-> sleeps, raised |-> FALSE]
    ELSE LET a == search_attempt(resps[attempt + 1], attempt, max_retries)
         IN  IF a.next = "retry"
             THEN search_loop(resps, attempt + 1, max_retries,
                              Append(sleeps, backoff(attempt)))
             ELSE [ret |-> a.ret, requests |-> attempt + 1, sleeps |-> sleeps,
                   raised |-> (a.next = "raise")]

\* default of search()'s max_retries
SearchMaxRetries == 3

search(query, num_results, max_retries, resps) ==
    [params |-> search_params(query, num_results)]
        @@ search_loop(resps, 0, max_retries, <<>>)

\* get_top_results(): the processed hits
process_results(raw_results) ==
    [k \in 1..Len(raw_results) |->
        [title   |-> Get(raw_results[k], "title", Lit("No Title")),
         snippet |-> Get(raw_results[k], "snippet", Lit("No snippet available")),
         link    |-> Get(raw_results[k], "link", Lit("#"))]]

get_top_results(query, num_results, resps) ==
    process_results(search(query, num_results, SearchMaxRetries, resps).ret)

(***************************************************************************)
(* WebScraper (scraper-module.py).                                         *)
(*                                                                         *)
(* A URL is a str whose chunks are its parts: scheme, "://", host, path,   *)
(* then optionally an extension, a query ("?...") and a fragment ("#...").*)
(***************************************************************************)
Url(parts) == Str([k \in 1..Len(parts) |-> Chunk(parts[k], Len(parts[k]))])

\* urlparse(url): the scheme and the netloc
urlparse(url) ==
    IF url.type = "str" /\ Len(url.v) >= 3 /\ url.v[2].s = "://"
    THEN [scheme |-> url.v[1].s, netloc |-> url.v[3].s]
    ELSE [scheme |-> "", netloc |-> ""]

_is_valid_url(url) ==
    LET result == urlparse(url)
    IN  result.scheme # "" /\ result.netloc # ""

skip_extensions ==
    {".pdf", ".jpg", ".jpeg", ".png", ".gif", ".mp4", ".zip",
     ".doc", ".docx", ".ppt", ".pptx"}

\* s.lower() of one chunk
Lower(s) ==
    CASE s = ".PDF" -> ".pdf"
      [] s = "TEXT/HTML" -> "text/html"
      [] OTHER -> s

\* url.lower().endswith(ext) for some ext of the denylist
_should_skip_url(url) ==
    /\ url.v # <<>>
    /\ Lower(url.v[Len(url.v)].s) \in skip_extensions

(***************************************************************************)
(* What requests.get does on one attempt of scrape():                      *)
(*   kind = "timeout", "http_error" (raise_for_status raises),             *)
(*   "redirects", "request_exception", "exception": it raises, `msg`       *)
(*   being str(e);                                                         *)
(*   kind = "ok": a 2xx response with Content-Type `ctype`, whose page     *)
(*   _extract_main_content cleans to `text`.                               *)
(***************************************************************************)
FetchResponse(kind, ctype, text, msg) ==
    [kind |-> kind, ctype |-> ctype, text |-> text, msg |-> msg]

\* 'text/html' in content_type.lower()
IsHtml(ctype) == \E k \in 1..Len(ctype.v) : Lower(ctype.v[k].s) = "text/html"

\* content_type.lower()
LowerStr(x) == Str([k \in 1..Len(x.v) |-> Chunk(Lower(x.v[k].s), x.v[k].n)])

MinContentLen == 100

MaxContentLen == 15000

\* scrape_response with long text returned whole
scrape_response_untruncated(r) ==
    IF ~IsHtml(r.ctype)
    THEN <<FALSE, Concat(Lit("Not an HTML page. Content-Type: "), LowerStr(r.ctype))>>
    ELSE IF ~Truthy(r.text) \/ PyLen(r.text) < MinContentLen
    THEN <<FALSE, Lit("Content too short or empty.")>>
    ELSE <<TRUE, r.text>>

\* scrape(): the body of the try for a 2xx response
scrape_response(r) ==
    IF ~IsHtml(r.ctype)
    THEN <<FALSE, Concat(Lit("Not an HTML page. Content-Type: "), LowerStr(r.ctype))>>
    ELSE IF ~Truthy(r.text) \/ PyLen(r.text) < MinContentLen
    THEN <<FALSE, Lit("Content too short or empty.")>>
    ELSE IF PyLen(r.text) > MaxContentLen
    THEN <<TRUE, Concat(Slice(r.text, MaxContentLen), Lit("..."))>>
    ELSE <<TRUE, r.text>>

\* how one pass of the loop body of scrape() ends: scrape() returns `ret`,
\* or it sleeps a second and goes round again
ScrapeReturn(v) == [next |-> "return", ret |-> v]

ScrapeRetry == [next |-> "retry", ret |-> <<FALSE, Lit("")>>]

\* timeout_handler giving up at the first timeout
timeout_handler_gives_up(attempt, max_retries) ==
    ScrapeReturn(<<FALSE, Lit("Request timed out.")>>)

\* `except requests.exceptions.Timeout`
timeout_handler(attempt, max_retries) ==
    IF attempt < max_retries - 1
    THEN ScrapeRetry
    ELSE ScrapeReturn(<<FALSE, Lit("Request timed out.")>>)

\* scrape(): one pass of the loop body, r being what the site does on it
scrape_attempt(r, attempt, max_retries) ==
    CASE r.kind = "ok" -> ScrapeReturn(scrape_response(r))
      [] r.kind = "timeout" -> timeout_handler(attempt, max_retries)
      [] r.kind = "http_error" ->
             ScrapeReturn(<<FALSE, Concat(Lit("HTTP error: "), r.msg)>>)
      [] r.kind = "redirects" -> ScrapeReturn(<<FALSE, Lit("Too many redirects.")>>)
      [] r.kind = "request_exception" ->
             ScrapeReturn(<<FALSE, Concat(Lit("Request error: "), r.msg)>>)
      [] OTHER -> ScrapeReturn(<<FALSE, Concat(Lit("Error: "), r.msg)>>)

\* scrape(): the loop from `attempt` on
RECURSIVE scrape_loop(_, _, _)
scrape_loop(resps, attempt, max_retries) ==
    IF attempt >= max_retries
    THEN [ret |-> <<FALSE, Lit("Failed after multiple attempts.")>>,
          requests |-> attempt]
    ELSE LET a == scrape_attempt(resps[attempt + 1], attempt, max_retries)
         IN  IF a.next = "retry"
             THEN scrape_loop(resps, attempt + 1, max_retries)
             ELSE [ret |-> a.ret, requests |-> attempt + 1]

\* default of scrape()'s max_retries
ScrapeMaxRetries == 2

scrape(url, max_retries, resps) ==
    IF ~_is_valid_url(url)
    THEN [ret |-> <<FALSE, Lit("Invalid URL format.")>>, requests |-> 0]
    ELSE IF _should_skip_url(url)
    THEN [ret |-> <<FALSE, Concat(Lit("Skipping URL that may contain non-HTML content: "),
                                  url)>>,
          requests |-> 0]
    ELSE scrape_loop(resps, 0, max_retries)

(***************************************************************************)
(* GeminiSummarizer (summarizer-module.py).                                *)
(*                                                                         *)
(* What model.generate_content does on one call:                           *)
(*   kind = "raise":  it raises, `msg` being str(e);                       *)
(*   kind = "notext": it returns a response without a text attribute;      *)
(*   kind = "text":   it returns a response whose text is `text`.          *)
(***************************************************************************)
GenResponse(kind, text, msg) == [kind |-> kind, text |-> text, msg |-> msg]

MinSummaryLen == 50

summarize_one_failure_message(content, query, is_brief, resp) ==
    CASE resp.kind = "raise" ->
             <<FALSE, Concat(Lit("Failed to summarize: "), resp.msg)>>
      [] OTHER ->
             IF resp.kind = "notext" \/ ~Truthy(resp.text) \/ PyLen(resp.text) < MinSummaryLen
             THEN <<FALSE, Lit("Error: Unexpected response format from API")>>
             ELSE <<TRUE, resp.text>>

summarize(content, query, is_brief, resp) ==
    CASE resp.kind = "raise" ->
             <<FALSE, Concat(Lit("Failed to summarize: "), resp.msg)>>
      [] resp.kind = "notext" ->
             <<FALSE, Lit("Error: Unexpected response format from API")>>
      [] OTHER ->
             IF ~Truthy(resp.text) \/ PyLen(resp.text) < MinSummaryLen
             THEN <<FALSE, Lit("Generated summary was too short or empty")>>
             ELSE <<TRUE, resp.text>>

create_comprehensive_summary(summaries, query, resp) ==
    CASE resp.kind = "raise" ->
             <<FALSE, Concat(Lit("Failed to create comprehensive summary: "), resp.msg)>>
      [] resp.kind = "notext" ->
             <<FALSE, Lit("Error: Unexpected response format from API")>>
      [] OTHER -> <<TRUE, resp.text>>

\* one call of summarize(), `resps[k]` being what the k-th call of
\* generate_content would do: the pair returned and the number of calls made
summarize_retrying(content, query, is_brief, resps) ==
    LET first == summarize(content, query, is_brief, resps[1])
    IN  IF first[1] THEN [ret |-> first, generate_calls |-> 1]
        ELSE [ret |-> summarize(content, query, is_brief, resps[2]), generate_calls |-> 2]

summarize_run(content, query, is_brief, resps) ==
    [ret |-> summarize(content, query, is_brief, resps[1]), generate_calls |-> 1]

\* the same for create_comprehensive_summary()
synthesis_run(summaries, query, resps) ==
    [ret |-> create_comprehensive_summary(summaries, query, resps[1]), generate_calls |-> 1]

(***************************************************************************)
(* Construction.  A key is None or a str; `env` is the process environment *)
(* as a record of the two key variables, None standing for an unset one.   *)
(***************************************************************************)
\* os.getenv(name)
getenv(env, name) == env[name]

key_from_env_first(arg, env, name) ==
    IF Truthy(getenv(env, name)) THEN getenv(env, name) ELSE arg

\* `arg or os.getenv(name)`
key_or_env(arg, env, name) == IF Truthy(arg) THEN arg ELSE getenv(env, name)

GeminiKeyRequired ==
    Lit("Gemini API key is required. Set GEMINI_API_KEY environment variable or pass it directly.")

SerpApiKeyRequired ==
    Lit("SerpAPI key is required. Set SERPAPI_KEY environment variable or pass it directly.")

\* SerpApiSearchTool(api_key): the ValueError raised, or None, and the key kept
search_tool_init(api_key, env) ==
    LET key == key_or_env(api_key, env, "SERPAPI_KEY")
    IN  IF ~Truthy(key) THEN [raised |-> SerpApiKeyRequired]
        ELSE [raised |-> None, api_key |-> key]

\* GeminiSummarizer(api_key, model_name)
summarizer_init(api_key, env) ==
    LET key == key_or_env(api_key, env, "GEMINI_API_KEY")
    IN  IF ~Truthy(key) THEN [raised |-> GeminiKeyRequired]
        ELSE [raised |-> None, api_key |-> key]

\* WebResearchAgent(gemini_key, serpapi_key)
agent_init(gemini_key, serpapi_key, env) ==
    LET gemini == key_or_env(gemini_key, env, "GEMINI_API_KEY")
        serpapi == key_or_env(serpapi_key, env, "SERPAPI_KEY")
    IN  IF ~Truthy(gemini) THEN [raised |-> GeminiKeyRequired]
        ELSE IF ~Truthy(serpapi) THEN [raised |-> SerpApiKeyRequired]
        ELSE LET search_tool == search_tool_init(serpapi, env)
                 summarizer == summarizer_init(gemini, env)
             IN  IF search_tool.raised # None THEN [raised |-> search_tool.raised]
                 ELSE IF summarizer.raised # None THEN [raised |-> summarizer.raised]
                 ELSE [raised |-> None, gemini_key |-> gemini, serpapi_key |-> serpapi,
                       search_tool |-> search_tool, summarizer |-> summarizer]

(***************************************************************************)
(* The Streamlit application (web-research-agent_St.py) has its own        *)
(* search_with_serpapi(): its request parameters (api_key left out), and   *)
(* the range of the slider its result count comes from.                    *)
(***************************************************************************)
serpapi_params(query, num_results, search_region) ==
    [q |-> query, engine |-> "google", num |-> num_results, gl |-> search_region]

SliderMin == 3

SliderMax == 10

(***************************************************************************)
(* The environment: the calls made to research() and what the providers    *)
(* do.                                                                     *)
(***************************************************************************)
\* the longest organic_results list the search provider returns
MaxHits == 2

Queries == {Lit("test query"), Lit("solar power")}

\* the optional arguments of a call, each left out (<<>>) or given
OptionalArgs ==
    {[num_results |-> <<>>, brief_summaries |-> <<>>],
     [num_results |-> <<3>>, brief_summaries |-> <<TRUE>>]}

\* the dicts of organic_results: a full one, one without a link, and one
\* with a null title and no snippet
RawHits ==
    {[title |-> Lit("Result A"), link |-> Url(<<"https", "://", "a.example", "/page">>),
      snippet |-> Lit("Snippet A")],
     [title |-> Lit("Result B"), snippet |-> Lit("Snippet B")],
     [title |-> None, link |-> Url(<<"https", "://", "c.example", "/">>)]}

\* the sequences over S of length lo..hi
SeqsOf(S, lo, hi) == UNION {[1..k -> S] : k \in lo..hi}

OrganicLists == SeqsOf(RawHits, 0, MaxHits)

SearchFailures ==
    {SearchResponse("exception", 0, "", <<>>),
     SearchResponse("response", 401, "", <<>>),
     SearchResponse("response", 429, "", <<>>),
     SearchResponse("response", 500, "", <<>>),
     SearchResponse("response", 200, "unparsable", <<>>),
     SearchResponse("response", 200, "no_organic", <<>>)}

\* what the HTTP layer can do on one attempt of search(), an HTTPError
\* without a response included
SearchFaults == SearchFailures \cup {SearchResponse("http_error", 0, "", <<>>)}

SearchResponses ==
    SearchFaults \cup {SearchResponse("response", 200, "organic", l) : l \in OrganicLists}

\* what the provider does over one call of search(): one response per
\* request that search() sends
SearchBehaviours ==
    {b \in UNION {{f \o <<r>> : f \in [1..k -> SearchFailures], r \in SearchResponses} :
                    k \in 0..(SearchMaxRetries - 1)} :
        search_loop(b \o [k \in 1..SearchMaxRetries |-> SearchResponse("exception", 0, "", <<>>)],
                    0, SearchMaxRetries, <<>>).requests = Len(b)}

HtmlType == Str(<<Chunk("text/html", 9), Chunk("; charset=utf-8", 15)>>)

FetchResponses ==
    {FetchResponse("timeout", None, None, Lit("")),
     FetchResponse("http_error", None, None, Lit("404 Client Error")),
     FetchResponse("redirects", None, None, Lit("")),
     FetchResponse("request_exception", None, None, Lit("Connection refused")),
     FetchResponse("ok", Lit("application/json"), Text("page", 600), Lit("")),
     FetchResponse("ok", HtmlType, Text("page", 40), Lit("")),
     FetchResponse("ok", HtmlType, Text("page", 600), Lit("")),
     FetchResponse("ok", HtmlType, Text("page", 20000), Lit(""))}

\* what the site does over one call of scrape(): one response per request
FetchBehaviours ==
    {b \in SeqsOf(FetchResponses, 1, ScrapeMaxRetries) :
        scrape_loop(b \o [k \in 1..ScrapeMaxRetries |-> FetchResponse("timeout", None, None, Lit(""))],
                    0, ScrapeMaxRetries).requests = Len(b)}

GenResponses ==
    {GenResponse("raise", None, Lit("429 quota exceeded")),
     GenResponse("notext", None, Lit("")),
     GenResponse("text", Text("generated", 20), Lit("")),
     GenResponse("text", Text("generated", 300), Lit(""))}

\* how many answers of the generation service a call is offered
GenAnswers == 2

(***************************************************************************)
(* WebResearchAgent.research() (agent-module.py).                          *)
(***************************************************************************)
VARIABLES
    pc,                    \* where research() is
    invocation,            \* the call as the caller wrote it
    query,                 \* its parameters
    num_results,
    brief_summaries,
    search_results,        \* its locals
    i,
    result_data,
    content,
    successful_summaries,
    comprehensive_success,
    comprehensive_summary,
    ret,                   \* the dict it returned
    calls,                 \* the collaborator calls that returned, in order
    sent,                  \* the requests it caused, when they are counted
    run,                   \* one call of a component made on its own
    main_pc,               \* where main() of the Streamlit application is
    batch,                 \* its search_results
    futures,               \* the extraction tasks it submitted, in order
    cache_dir,             \* the files of cache/, by path
    scraped_results,       \* the dict scrape_urls_parallel() builds
    loop_index,            \* i of the summarization loop
    summarize_calls,       \* the summarization calls made, in order
    collected_summaries,   \* its successful_summaries
    synthesis_input        \* whether the synthesis was called, and with what

vars == <<pc, invocation, query, num_results, brief_summaries, search_results, i, result_data,
          content, successful_summaries, comprehensive_success,
          comprehensive_summary, ret, calls, sent, run,
          main_pc, batch, futures, cache_dir, scraped_results, loop_index,
          summarize_calls, collected_summaries, synthesis_input>>

\* the state of the Streamlit application
parallel_vars ==
    <<main_pc, batch, futures, cache_dir, scraped_results, loop_index,
      summarize_calls, collected_summaries, synthesis_input>>

\* a local not yet bound, a result not yet returned
Unbound == [unbound |-> TRUE]

\* defaults of research()'s parameters
DefaultNumResults == 5

DefaultBrief == FALSE

\* one call of a collaborator: which, for which hit (0-based), with which
\* arguments, and what it returned
Call(op, idx, args, r) == [op |-> op, idx |-> idx, args |-> args, ret |-> r]

\* requests caused so far: by the search, by the scrape and by the summary
\* of each hit, and by the synthesis
NothingSent == [search |-> 0, fetch |-> <<>>, summarize |-> <<>>, synthesis |-> 0]

Init ==
    /\ pc = "idle"
    /\ invocation = Unbound
    /\ query = None
    /\ num_results = 0
    /\ brief_summaries = FALSE
    /\ search_results = <<>>
    /\ i = 0
    /\ result_data = Unbound
    /\ content = None
    /\ successful_summaries = <<>>
    /\ comprehensive_success = FALSE
    /\ comprehensive_summary = None
    /\ ret = Unbound
    /\ calls = <<>>
    /\ sent = NothingSent
    /\ run = Unbound
    /\ main_pc = "idle"
    /\ batch = <<>>
    /\ futures = <<>>
    /\ cache_dir = <<>>
    /\ scraped_results = <<>>
    /\ loop_index = 0
    /\ summarize_calls = <<>>
    /\ collected_summaries = <<>>
    /\ synthesis_input = Unbound

\* no_results with the early return lost
no_results_never(results) == FALSE

\* `if not search_results`
no_results(results) == Len(results) = 0

\* the dict returned when the search found nothing
no_results_return ==
    [success |-> FALSE,
     error |-> Lit("No search results found"),
     results |-> <<>>,
     comprehensive_summary |-> None]

\* research() up to the end of step 1, the provider answering the search
\* with `resps`: the search, and the early return.  An exception that
\* leaves search() leaves get_top_results() and research() too.
ResearchOn(q, n, b, resps) ==
    /\ pc = "idle"
    /\ invocation' = [query |-> q, num_results |-> n, brief_summaries |-> b]
    /\ query' = q
    /\ num_results' = (IF n = <<>> THEN DefaultNumResults ELSE n[1])
    /\ brief_summaries' = (IF b = <<>> THEN DefaultBrief ELSE b[1])
    /\ IF search(query', num_results', SearchMaxRetries, resps).raised
       THEN /\ pc' = "raised"
            /\ UNCHANGED <<search_results, ret, calls>>
       ELSE LET hits == get_top_results(query', num_results', resps)
            IN  /\ search_results' = hits
                /\ calls' = Append(calls, Call("get_top_results", 0,
                                               <<query', num_results'>>, hits))
                /\ IF no_results(hits)
                   THEN /\ ret' = no_results_return
                        /\ pc' = "done"
                   ELSE /\ ret' = ret
                        /\ pc' = "scrape"
    /\ UNCHANGED <<i, result_data, content, successful_summaries,
                   comprehensive_success, comprehensive_summary, run,
                   parallel_vars>>

Research(q, n, b) ==
    /\ pc = "idle"
    /\ \E resps \in SearchBehaviours : ResearchOn(q, n, b, resps)
    /\ UNCHANGED sent

\* new_result_data with the snippet taken from the title
new_result_data_snippet_from_title(result) ==
    [title |-> result.title,
     link |-> result.link,
     snippet |-> result.title,
     success |-> FALSE]

\* the dict an item starts as
new_result_data(result) ==
    [title |-> result.title,
     link |-> result.link,
     snippet |-> result.snippet,
     success |-> FALSE]

\* loop_next leaving the loop after the first item stored
loop_next_leaves(idx, n) == "synthesize"

\* where the for loop goes once item idx (0-based) of n is stored
loop_next(idx, n) == IF idx + 1 < n THEN "scrape" ELSE "synthesize"

\* after_scrape with a failed scrape ending the loop
after_scrape_fail_fast(scrape_success, idx, n) ==
    IF scrape_success THEN "summarize" ELSE "synthesize"

\* where research() goes after the scrape of item idx
after_scrape(scrape_success, idx, n) ==
    IF scrape_success THEN "summarize" ELSE loop_next(idx, n)

\* scrape_failed_result with the message not recorded
scrape_failed_result_no_error(data, message) == data

\* the item's dict after a failed scrape
scrape_failed_result(data, message) == Put(data, "error", message)

\* summary_failed_result with the message stored as the summary
summary_failed_result_as_summary(data, message) == Put(data, "summary", message)

\* the item's dict after a failed summary
summary_failed_result(data, message) == Put(data, "error", message)

\* ScrapeItem with a failed scrape tried a second time
ScrapeItemRetrying ==
    /\ pc = "scrape"
    /\ LET result == search_results[i + 1]
       IN  \E first \in FetchBehaviours, second \in FetchBehaviours :
             LET r1 == scrape(result.link, ScrapeMaxRetries, first).ret
                 r == IF r1[1] THEN r1
                      ELSE scrape(result.link, ScrapeMaxRetries, second).ret
                 c1 == Call("scrape", i, <<result.link>>, r1)
             IN  /\ calls' = (IF r1[1] THEN Append(calls, c1)
                              ELSE calls \o <<c1, Call("scrape", i, <<result.link>>, r)>>)
                 /\ content' = r[2]
                 /\ IF ~r[1]
                    THEN /\ result_data' =
                                scrape_failed_result(new_result_data(result), r[2])
                         /\ search_results' =
                                [search_results EXCEPT ![i + 1] = result_data']
                         /\ i' = (IF i + 1 < Len(search_results) THEN i + 1 ELSE i)
                    ELSE /\ result_data' = new_result_data(result)
                         /\ search_results' = search_results
                         /\ i' = i
                 /\ pc' = after_scrape(r[1], i, Len(search_results))
    /\ UNCHANGED <<invocation, query, num_results, brief_summaries, successful_summaries,
                   comprehensive_success, comprehensive_summary, ret, sent, run,
                   parallel_vars>>

\* step 2a for item i, the site answering with `resps`: the item's dict, the
\* scrape, and the failure branch
ScrapeItemOn(resps) ==
    /\ pc = "scrape"
    /\ LET result == search_results[i + 1]
           r == scrape(result.link, ScrapeMaxRetries, resps).ret
       IN  /\ calls' = Append(calls, Call("scrape", i, <<result.link>>, r))
           /\ content' = r[2]
           /\ IF ~r[1]
              THEN /\ result_data' =
                          scrape_failed_result(new_result_data(result), r[2])
                   /\ search_results' =
                          [search_results EXCEPT ![i + 1] = result_data']
                   /\ i' = (IF i + 1 < Len(search_results) THEN i + 1 ELSE i)
              ELSE /\ result_data' = new_result_data(result)
                   /\ search_results' = search_results
                   /\ i' = i
           /\ pc' = after_scrape(r[1], i, Len(search_results))
    /\ UNCHANGED <<invocation, query, num_results, brief_summaries, successful_summaries,
                   comprehensive_success, comprehensive_summary, ret, run,
                   parallel_vars>>

ScrapeItem ==
    /\ pc = "scrape"
    /\ \E resps \in FetchBehaviours : ScrapeItemOn(resps)
    /\ UNCHANGED sent

PreviewLen == 1000

\* content[:1000] + "..." if len(content) > 1000 else content
content_preview(text) ==
    IF PyLen(text) > PreviewLen
    THEN Concat(Slice(text, PreviewLen), Lit("..."))
    ELSE text

\* successful_result without the content preview
successful_result_without_preview(data, summary, text) ==
    Put(Put(data, "success", TRUE), "summary", summary)

\* the item's dict after a successful summary
successful_result(data, summary, text) ==
    Put(Put(Put(data, "success", TRUE), "summary", summary),
        "content", content_preview(text))

\* what is appended to successful_summaries
source_summary(result, summary) ==
    [title |-> result.title, link |-> result.link, summary |-> summary]

\* step 2b for item i, the generation service answering with `resp`: the
\* summary, both branches, and storing the item
SummarizeItemOn(resp) ==
    /\ pc = "summarize"
    /\ LET result == search_results[i + 1]
           r == summarize(content, query, brief_summaries, resp)
       IN  /\ calls' = Append(calls, Call("summarize", i,
                                          <<content, query, brief_summaries>>, r))
           /\ IF ~r[1]
              THEN /\ result_data' = summary_failed_result(result_data, r[2])
                   /\ successful_summaries' = successful_summaries
              ELSE /\ result_data' = successful_result(result_data, r[2], content)
                   /\ successful_summaries' =
                          Append(successful_summaries, source_summary(result, r[2]))
           /\ search_results' = [search_results EXCEPT ![i + 1] = result_data']
    /\ i' = (IF i + 1 < Len(search_results) THEN i + 1 ELSE i)
    /\ pc' = loop_next(i, Len(search_results))
    /\ UNCHANGED <<invocation, query, num_results, brief_summaries, content,
                   comprehensive_success, comprehensive_summary, ret, run,
                   parallel_vars>>

SummarizeItem ==
    /\ pc = "summarize"
    /\ \E resp \in GenResponses : SummarizeItemOn(resp)
    /\ UNCHANGED sent

\* should_synthesize with the test lost
should_synthesize_always(summaries) == TRUE

\* `if successful_summaries`
should_synthesize(summaries) == Len(summaries) > 0

\* step 3, the generation service answering with `resp` if it is asked: the
\* comprehensive summary, when there is something to combine
SynthesizeOn(resp) ==
    /\ pc = "synthesize"
    /\ IF should_synthesize(successful_summaries)
       THEN LET r == create_comprehensive_summary(successful_summaries, query, resp)
            IN  /\ calls' = Append(calls, Call("create_comprehensive_summary", 0,
                                               <<successful_summaries, query>>, r))
                /\ comprehensive_success' = r[1]
                /\ comprehensive_summary' = r[2]
       ELSE /\ calls' = calls
            /\ comprehensive_success' = FALSE
            /\ comprehensive_summary' = None
    /\ pc' = "return"
    /\ UNCHANGED <<invocation, query, num_results, brief_summaries, search_results, i,
                   result_data, content, successful_summaries, ret, run,
                   parallel_vars>>

Synthesize ==
    /\ pc = "synthesize"
    /\ \E resp \in GenResponses : SynthesizeOn(resp)
    /\ UNCHANGED sent

\* research_success made to depend on the synthesis
research_success_with_synthesis(summaries) ==
    Len(summaries) > 0 /\ comprehensive_success

\* the success flag of the returned dict
research_success(summaries) == Len(summaries) > 0

\* returned_summary without the test of the flag
returned_summary_unchecked(success, summary) == summary

\* the comprehensive_summary of the returned dict
returned_summary(success, summary) == IF success THEN summary ELSE None

\* step 4: the dict research() returns
Return ==
    /\ pc = "return"
    /\ ret' = [success |-> research_success(successful_summaries),
               query |-> query,
               results |-> search_results,
               comprehensive_summary |->
                   returned_summary(comprehensive_success, comprehensive_summary)]
    /\ pc' = "done"
    /\ UNCHANGED <<invocation, query, num_results, brief_summaries, search_results, i,
                   result_data, content, successful_summaries,
                   comprehensive_success, comprehensive_summary, calls, sent, run,
                   parallel_vars>>

Next ==
    \/ \E q \in Queries, o \in OptionalArgs :
          Research(q, o.num_results, o.brief_summaries)
    \/ ScrapeItem
    \/ SummarizeItem
    \/ Synthesize
    \/ Return

Spec == Init /\ [][Next]_vars

(***************************************************************************)
(* research() with the requests it causes counted in `sent`, the providers *)
(* being the ones of Spec.                                                 *)
(***************************************************************************)
\* step 1, and the requests search() sent
CountedResearch(q, n, b) ==
    /\ pc = "idle"
    /\ \E resps \in SearchBehaviours :
         /\ ResearchOn(q, n, b, resps)
         /\ sent' = [search |-> search(q, num_results', SearchMaxRetries, resps).requests,
                     fetch |-> [k \in 1..Len(search_results') |-> 0],
                     summarize |-> [k \in 1..Len(search_results') |-> 0],
                     synthesis |-> 0]

\* step 2a for item i, and the requests scrape() sent
CountedScrapeItem ==
    /\ pc = "scrape"
    /\ \E resps \in FetchBehaviours :
         /\ ScrapeItemOn(resps)
         /\ sent' = [sent EXCEPT !.fetch[i + 1] =
                        @ + scrape(search_results[i + 1].link, ScrapeMaxRetries,
                                   resps).requests]

\* step 2b for item i, and the calls of the generation service
CountedSummarizeItem ==
    /\ pc = "summarize"
    /\ \E resps \in [1..GenAnswers -> GenResponses] :
         /\ SummarizeItemOn(resps[1])
         /\ sent' = [sent EXCEPT !.summarize[i + 1] =
                        @ + summarize_run(content, query, brief_summaries,
                                          resps).generate_calls]

\* step 3, and the calls of the generation service
CountedSynthesize ==
    /\ pc = "synthesize"
    /\ \E resps \in [1..GenAnswers -> GenResponses] :
         /\ SynthesizeOn(resps[1])
         /\ sent' = [sent EXCEPT !.synthesis =
                        IF should_synthesize(successful_summaries)
                        THEN @ + synthesis_run(successful_summaries, query,
                                               resps).generate_calls
                        ELSE @]

CountedNext ==
    \/ \E q \in Queries, o \in OptionalArgs :
          CountedResearch(q, o.num_results, o.brief_summaries)
    \/ CountedScrapeItem
    \/ CountedSummarizeItem
    \/ CountedSynthesize
    \/ Return

\* research() runs in one thread and every call it makes returns or raises,
\* so a step that can be taken is taken
Terminating == Init /\ [][CountedNext]_vars /\ WF_vars(CountedNext)

(***************************************************************************)
(* The components called on their own: one call of search(),               *)
(* get_top_results(), scrape(), summarize() or                             *)
(* create_comprehensive_summary() with arguments and a provider behaviour  *)
(* drawn from the sets below; `run` records the call and its outcome.      *)
(***************************************************************************)
\* the largest max_retries a caller passes
MaxAttempts == 3

\* the result counts a caller asks for
Counts == {1, 5, 10, 11, 25}


SearchProbeResponses ==
    SearchFaults \cup
        {SearchResponse("response", 200, "organic", l) : l \in SeqsOf(RawHits, 0, 1)}

\* what the provider does over one call of get_top_results()
SearchProbeBehaviours ==
    SearchBehaviours \cup {<<SearchResponse("http_error", 0, "", <<>>)>>}

\* a URL as the caller means it: scheme, host, path, the path's extension,
\* and what follows the path (query, fragment), each possibly empty
UrlParts(scheme, netloc, path, ext, tail) ==
    [scheme |-> scheme, netloc |-> netloc, path |-> path, ext |-> ext, tail |-> tail]

\* the URL string of the parts
UrlOf(u) ==
    Url((IF u.scheme = "" THEN <<u.netloc, u.path>>
         ELSE <<u.scheme, "://", u.netloc, u.path>>)
        \o (IF u.ext = "" THEN <<>> ELSE <<u.ext>>)
        \o u.tail)

ProbeUrls ==
    {UrlParts("https", "b.example", "/doc", "", <<>>),
     UrlParts("https", "b.example", "/doc", ".html", <<>>),
     UrlParts("https", "b.example", "/doc", ".pdf", <<>>),
     UrlParts("https", "b.example", "/doc", ".PDF", <<>>),
     UrlParts("https", "b.example", "/doc", ".pdf", <<"?download=1">>),
     UrlParts("https", "b.example", "/doc", ".jpg", <<"#page=2">>),
     UrlParts("https", "b.example", "/doc", "", <<"?file=report", ".pdf">>),
     UrlParts("", "b.example", "/doc", "", <<>>),
     UrlParts("https", "", "/doc", "", <<>>),
     UrlParts("", "b.example", "/doc", ".pdf", <<>>)}

\* what the site can do on one attempt of scrape(), an exception that is
\* not a RequestException included
FetchProbeResponses ==
    FetchResponses \cup {FetchResponse("exception", None, None, Lit("unexpected"))}

\* the lengths of cleaned text around the two thresholds of scrape()
ContentLengths == {0, 1, 99, 100, 101, 14999, 15000, 15001, 20000}

\* an HTML page whose cleaned text has each of these lengths
ContentResponses ==
    {FetchResponse("ok", HtmlType, Text("page", n), Lit("")) : n \in ContentLengths}

\* what the generation service can do on one call, with texts around the
\* minimum summary length
GenProbeResponses ==
    GenResponses \cup
        {GenResponse("text", Text("generated", n), Lit("")) : n \in {0, 1, 49, 50}}
        \cup {GenResponse("raise", None, Lit(""))}

\* a key argument: not passed, passed empty, passed
KeyArgs == {None, Lit(""), Lit("key passed")}

\* a key variable of the environment: unset, set empty, set
KeyEnvs == {None, Lit(""), Lit("key of the environment")}

Environments == [{"GEMINI_API_KEY", "SERPAPI_KEY"} -> KeyEnvs]

ProbeContents == {Text("page", 600), Text("page", 15003)}

ProbeSummaries ==
    {<<[title |-> Lit("Result A"), link |-> Lit("https://a.example/page"),
        summary |-> Text("generated", 300)]>>}

\* one call of a component: which, with which arguments, against which
\* provider behaviour, and its outcome
Run(op, args, provider, out) ==
    [op |-> op, args |-> args, provider |-> provider, out |-> out]

research_vars ==
    <<pc, invocation, query, num_results, brief_summaries, search_results, i, result_data,
      content, successful_summaries, comprehensive_success, comprehensive_summary, ret,
      calls, sent>>

\* search(query, num_results, max_retries)
SearchCall(q, n, m) ==
    /\ run = Unbound
    /\ \E resps \in [1..m -> SearchProbeResponses] :
         run' = Run("search", [query |-> q, num_results |-> n, max_retries |-> m],
                    resps, search(q, n, m, resps))
    /\ UNCHANGED <<research_vars, parallel_vars>>

\* get_top_results(query, num_results); an exception that leaves search()
\* leaves get_top_results() too
GetTopResultsCall(q, n) ==
    /\ run = Unbound
    /\ \E resps \in SearchProbeBehaviours :
         LET s == search(q, n, SearchMaxRetries, resps)
         IN  run' = Run("get_top_results", [query |-> q, num_results |-> n], resps,
                        [raised |-> s.raised,
                         raw |-> s.ret,
                         ret |-> IF s.raised THEN <<>>
                                 ELSE get_top_results(q, n, resps)])
    /\ UNCHANGED <<research_vars, parallel_vars>>

\* scrape(url, max_retries)
ScrapeCall(u, m) ==
    /\ run = Unbound
    /\ \E resps \in [1..m -> FetchProbeResponses] :
         run' = Run("scrape", [url |-> UrlOf(u), parts |-> u, max_retries |-> m],
                    resps, scrape(UrlOf(u), m, resps))
    /\ UNCHANGED <<research_vars, parallel_vars>>

\* scrape(url) of a site that answers every request with the same page
ScrapePageCall(u) ==
    /\ run = Unbound
    /\ \E r \in ContentResponses :
         LET resps == [k \in 1..ScrapeMaxRetries |-> r]
         IN  run' = Run("scrape",
                        [url |-> UrlOf(u), parts |-> u, max_retries |-> ScrapeMaxRetries],
                        resps, scrape(UrlOf(u), ScrapeMaxRetries, resps))
    /\ UNCHANGED <<research_vars, parallel_vars>>

\* summarize(content, query, is_brief)
SummarizeCall(c, q, b) ==
    /\ run = Unbound
    /\ \E resps \in [1..GenAnswers -> GenProbeResponses] :
         run' = Run("summarize", [content |-> c, query |-> q, is_brief |-> b],
                    resps, summarize_run(c, q, b, resps))
    /\ UNCHANGED <<research_vars, parallel_vars>>

\* create_comprehensive_summary(summaries, query)
SynthesisCall(l, q) ==
    /\ run = Unbound
    /\ \E resps \in [1..GenAnswers -> GenProbeResponses] :
         run' = Run("create_comprehensive_summary", [summaries |-> l, query |-> q],
                    resps, synthesis_run(l, q, resps))
    /\ UNCHANGED <<research_vars, parallel_vars>>

\* search_with_serpapi(query, api_key, num_results, search_region) as the
\* application calls it, up to the request it sends when nothing is cached
SearchWithSerpapiCall(q, n, region) ==
    /\ run = Unbound
    /\ run' = Run("search_with_serpapi",
                  [query |-> q, num_results |-> n, search_region |-> region],
                  <<>>, [params |-> serpapi_params(q, n, region)])
    /\ UNCHANGED <<research_vars, parallel_vars>>

\* WebResearchAgent(gemini_key, serpapi_key) in environment `env`
AgentInitCall(g, s, env) ==
    /\ run = Unbound
    /\ run' = Run("__init__", [gemini_key |-> g, serpapi_key |-> s], env,
                  agent_init(g, s, env))
    /\ UNCHANGED <<research_vars, parallel_vars>>

ComponentNext ==
    \/ \E q \in Queries, n \in Counts, m \in 0..MaxAttempts : SearchCall(q, n, m)
    \/ \E q \in Queries, n \in Counts : GetTopResultsCall(q, n)
    \/ \E q \in Queries, n \in SliderMin..SliderMax :
          SearchWithSerpapiCall(q, n, "us")
    \/ \E u \in ProbeUrls, m \in 0..MaxAttempts : ScrapeCall(u, m)
    \/ \E u \in ProbeUrls : ScrapePageCall(u)
    \/ \E c \in ProbeContents, q \in Queries, b \in BOOLEAN : SummarizeCall(c, q, b)
    \/ \E l \in ProbeSummaries, q \in Queries : SynthesisCall(l, q)
    \/ \E g \in KeyArgs, s \in KeyArgs, env \in Environments : AgentInitCall(g, s, env)

Components == Init /\ [][ComponentNext]_vars

(***************************************************************************)
(* The concurrent extraction of the Streamlit application                  *)
(* (web-research-agent_St.py): main() submits one task per hit that has a  *)
(* link to a pool of worker threads, collects the outcomes by URL, and     *)
(* then summarizes the hits one after the other.                           *)
(*                                                                         *)
(* A task is a sequence of steps, one per file operation or request, and   *)
(* the steps of the running tasks interleave freely.                       *)
(***************************************************************************)
\* ThreadPoolExecutor(max_workers=3)
max_workers == 3

\* the longest list of hits
BatchSize == 4

Links ==
    {Url(<<"https", "://", "a.example", "/page">>),
     Url(<<"https", "://", "b.example", "/page">>)}

Titles == <<"Result 1", "Result 2", "Result 3", "Result 4", "Result 5", "Result 6">>

\* hit k of organic_results, with the link or without one
Hit(k, link) ==
    IF link = None
    THEN [title |-> Lit(Titles[k]), snippet |-> Lit("Snippet")]
    ELSE [title |-> Lit(Titles[k]), snippet |-> Lit("Snippet"), link |-> link]

\* a link that is not a str
BadLink == PyInt(5)

\* the lists of hits: every list that the workers can take at once, and of
\* the longer ones those where the hits link to the first page, the second
\* page and the link that is not a str in turn
Batches ==
    UNION {{[k \in 1..n |-> Hit(k, l[k])] :
              l \in {m \in [1..n -> Links \cup {None, BadLink}] :
                       n > max_workers =>
                           \A k \in 1..n :
                               IF k % 3 = 0 THEN m[k] = BadLink
                               ELSE /\ m[k] \in Links
                                    /\ m[k].v[3].s = IF k % 3 = 1 THEN "a.example"
                                                     ELSE "b.example"}} :
             n \in 1..BatchSize}

RECURSIVE Joined(_)
\* the characters of a str, chunk after chunk
Joined(v) == IF v = <<>> THEN "" ELSE v[1].s \o Joined(Tail(v))

\* hashlib.md5(s.encode()).hexdigest(): 32 characters that depend on s
md5_hexdigest(text) == Str(<<Chunk("md5(" \o Joined(text.v) \o ")", 32)>>)

\* f"cache/{hash_obj}.pkl"
get_cache_path(query_or_url) ==
    Concat(Lit("cache/"), Concat(md5_hexdigest(query_or_url), Lit(".pkl")))

\* what a file of cache/ holds: a pickled entry, or, once opened for
\* writing and not yet written, nothing that can be unpickled
Partial == [state |-> "partial"]

Entry(data, expired) == [state |-> "entry", data |-> data, expired |-> expired]

\* str(e) of the AttributeError of query_or_url.encode() on a value that
\* is not a str
NoEncode(value) ==
    Concat(Lit("'"), Concat(Lit(value.type), Lit("' object has no attribute 'encode'")))

\* a path of cache/: the files created there so far, and which of them the
\* path names now (0: none).  A file that was removed lives on for the tasks
\* that have it open.
NoFile == [linked |-> 0, files |-> <<>>]

FileWith(stored) == [linked |-> 1, files |-> <<stored>>]

\* pickle.load(f) and the test of cache_data["expires"]
unpickle(stored) ==
    CASE stored.state = "partial" -> "error"
      [] stored.expired -> "expired"
      [] OTHER -> "hit"

\* the text of the page at a URL, and the text an older run cached
PageText(url) == Text(Joined(url.v), 600)

CachedText == Text("cached page", 700)

\* what the site does with the requests of one task
SiteAnswers == {"timeout", "page", "raise"}

\* scrape_web_page() from the requests to the checks of the text: the pair
\* it is about to return.  An unexpected error of the request is caught.
fetch_page(url, answer) ==
    CASE answer = "timeout" -> <<FALSE, Lit("Request timed out.")>>
      [] answer = "raise" -> <<FALSE, Concat(Lit("Error: "), Lit("unexpected failure"))>>
      [] OTHER -> <<TRUE, PageText(url)>>

\* what a path of cache/ can be when main() starts
InitialFiles ==
    {NoFile, FileWith(Entry(CachedText, FALSE)), FileWith(Entry(CachedText, TRUE))}

\* cache/ when main() starts: of the two pages the first may be there
CacheDirs ==
    {d \in [{get_cache_path(u) : u \in Links} -> InitialFiles] :
        \A u \in Links : u.v[3].s # "a.example" => d[get_cache_path(u)] = NoFile}

\* what generate_content does for summarize_with_gemini()
StGenResponses ==
    {GenResponse("raise", None, Lit("429 quota exceeded")),
     GenResponse("text", Text("generated", 300), Lit(""))}

summarize_with_gemini(text, resp) ==
    IF resp.kind = "raise"
    THEN <<FALSE, Concat(Lit("Failed to summarize with Gemini API: "), resp.msg)>>
    ELSE <<TRUE, resp.text>>

\* [result.get('link', '') for result in search_results if result.get('link')]
urls_to_scrape(search_hits) ==
    LET with_link == SelectSeq(search_hits, LAMBDA h : Truthy(Get(h, "link", Lit(""))))
    IN  [k \in 1..Len(with_link) |-> with_link[k].link]

\* executor.submit(scrape_web_page, url).  `state` names the operation the
\* task does next, `fd` the file it has open (0: none).
submit(url) ==
    [url |-> url, state |-> "queued", result |-> Unbound, raised |-> FALSE,
     yielded |-> FALSE, touched |-> {}, fd |-> 0]

\* one access of a task to a file of cache/
Access(path, how) == [path |-> path, how |-> how]

\* the tasks a worker thread is running
Running ==
    {k \in 1..Len(futures) : futures[k].state \notin {"queued", "done"}}

sequential_vars == <<research_vars, run>>

main_vars ==
    <<main_pc, batch, scraped_results, loop_index, summarize_calls, collected_summaries,
      synthesis_input>>

\* main() from the search results to the submission of the tasks
StartResearch(b, files) ==
    /\ main_pc = "idle"
    /\ batch' = b
    /\ cache_dir' = files
    /\ futures' = [k \in 1..Len(urls_to_scrape(b)) |-> submit(urls_to_scrape(b)[k])]
    /\ main_pc' = "scraping"
    /\ UNCHANGED <<scraped_results, loop_index, summarize_calls, collected_summaries,
                   synthesis_input, sequential_vars>>

\* a free worker takes the oldest task of the queue
TaskStart(k) ==
    /\ main_pc = "scraping"
    /\ futures[k].state = "queued"
    /\ \A j \in 1..(k - 1) : futures[j].state # "queued"
    /\ Cardinality(Running) < max_workers
    /\ futures' = [futures EXCEPT ![k] = [@ EXCEPT !.state = "exists"]]
    /\ UNCHANGED <<cache_dir, main_vars, sequential_vars>>

\* load_from_cache(): get_cache_path(url), which raises out of the task
\* when the link has no encode(), and os.path.exists(cache_path)
TaskExists(k) ==
    /\ main_pc = "scraping"
    /\ futures[k].state = "exists"
    /\ IF futures[k].url.type # "str"
       THEN futures' = [futures EXCEPT ![k] =
                [@ EXCEPT !.state = "done", !.raised = TRUE,
                          !.result = <<FALSE, NoEncode(futures[k].url)>>]]
       ELSE LET path == get_cache_path(futures[k].url)
            IN  futures' = [futures EXCEPT ![k] =
                    [@ EXCEPT !.state = IF cache_dir[path].linked # 0 THEN "open_rb"
                                        ELSE "fetch",
                              !.touched = @ \cup {Access(path, "read")}]]
    /\ UNCHANGED <<cache_dir, main_vars, sequential_vars>>

\* load_from_cache(): open(cache_path, "rb"); a file removed since the test
\* is an error, which is logged
TaskOpenRead(k) ==
    /\ main_pc = "scraping"
    /\ futures[k].state = "open_rb"
    /\ LET path == get_cache_path(futures[k].url)
       IN  futures' = [futures EXCEPT ![k] =
               IF cache_dir[path].linked # 0
               THEN [@ EXCEPT !.state = "load", !.fd = cache_dir[path].linked]
               ELSE [@ EXCEPT !.state = "fetch"]]
    /\ UNCHANGED <<cache_dir, main_vars, sequential_vars>>

\* load_from_cache(): pickle.load(f) on the open file and the test of the
\* expiry date; a fresh entry is what scrape_web_page() returns
TaskLoad(k) ==
    /\ main_pc = "scraping"
    /\ futures[k].state = "load"
    /\ LET path == get_cache_path(futures[k].url)
           stored == cache_dir[path].files[futures[k].fd]
           loaded == unpickle(stored)
       IN  futures' = [futures EXCEPT ![k] =
               CASE loaded = "hit" ->
                        [@ EXCEPT !.state = "done", !.result = <<TRUE, stored.data>>,
                                  !.fd = 0]
                 [] loaded = "expired" -> [@ EXCEPT !.state = "remove", !.fd = 0]
                 [] OTHER -> [@ EXCEPT !.state = "fetch", !.fd = 0]]
    /\ UNCHANGED <<cache_dir, main_vars, sequential_vars>>

\* load_from_cache(): os.remove(cache_path) of the expired entry, whatever
\* the path names by now; a path that names nothing is an error, logged
TaskRemove(k) ==
    /\ main_pc = "scraping"
    /\ futures[k].state = "remove"
    /\ LET path == get_cache_path(futures[k].url)
       IN  /\ cache_dir' = [cache_dir EXCEPT ![path].linked = 0]
           /\ futures' = [futures EXCEPT ![k] =
                  [@ EXCEPT !.state = "fetch",
                            !.touched = @ \cup {Access(path, "write")}]]
    /\ UNCHANGED <<main_vars, sequential_vars>>

\* the task fetches the page and checks the text
TaskFetch(k, answer) ==
    /\ main_pc = "scraping"
    /\ futures[k].state = "fetch"
    /\ LET r == fetch_page(futures[k].url, answer)
       IN  futures' = [futures EXCEPT ![k] =
               [@ EXCEPT !.state = IF r[1] THEN "open_wb" ELSE "done", !.result = r]]
    /\ UNCHANGED <<cache_dir, main_vars, sequential_vars>>

\* save_to_cache(): open(cache_path, "wb") empties the file the path names,
\* or creates one
TaskOpenWrite(k) ==
    /\ main_pc = "scraping"
    /\ futures[k].state = "open_wb"
    /\ LET path == get_cache_path(futures[k].url)
           at == cache_dir[path]
           file == IF at.linked # 0 THEN at.linked ELSE Len(at.files) + 1
       IN  /\ cache_dir' = [cache_dir EXCEPT ![path] =
                  [linked |-> file,
                   files |-> IF at.linked # 0
                             THEN [at.files EXCEPT ![file] = Partial]
                             ELSE Append(at.files, Partial)]]
           /\ futures' = [futures EXCEPT ![k] =
                  [@ EXCEPT !.state = "dump", !.fd = file,
                            !.touched = @ \cup {Access(path, "write")}]]
    /\ UNCHANGED <<main_vars, sequential_vars>>

\* save_to_cache(): pickle.dump and the end of the task.  While another task
\* has the same file open for writing the two writes are unordered, and the
\* file ends as an entry or as one that cannot be unpickled.
TaskSave(k) ==
    /\ main_pc = "scraping"
    /\ futures[k].state = "dump"
    /\ LET path == get_cache_path(futures[k].url)
           raced == \E j \in 1..Len(futures) :
                        /\ j # k
                        /\ futures[j].state = "dump"
                        /\ futures[j].url = futures[k].url
                        /\ futures[j].fd = futures[k].fd
       IN  \E written \in {Entry(futures[k].result[2], FALSE)} \cup
                           (IF raced THEN {Partial} ELSE {}) :
              cache_dir' = [cache_dir EXCEPT ![path].files[futures[k].fd] = written]
    /\ futures' = [futures EXCEPT ![k] = [@ EXCEPT !.state = "done", !.fd = 0]]
    /\ UNCHANGED <<main_vars, sequential_vars>>

\* results[url] = (success, content)
store(results, url, outcome) == (url :> outcome) @@ results

\* future.result(), and the pair stored when it raises
collected(task) ==
    IF task.raised THEN <<FALSE, Concat(Lit("Error: "), task.result[2])>>
    ELSE task.result

\* as_completed() yields a finished task and main() stores its outcome
Collect(k) ==
    /\ main_pc = "scraping"
    /\ futures[k].state = "done"
    /\ ~futures[k].yielded
    /\ scraped_results' = store(scraped_results, futures[k].url, collected(futures[k]))
    /\ futures' = [futures EXCEPT ![k] = [@ EXCEPT !.yielded = TRUE]]
    /\ UNCHANGED <<main_pc, batch, cache_dir, loop_index, summarize_calls,
                   collected_summaries, synthesis_input, sequential_vars>>

\* all_completed with the loop left after the first task yielded
all_completed_first_only(tasks) == \E k \in 1..Len(tasks) : tasks[k].yielded

\* as_completed() is exhausted
all_completed(tasks) == \A k \in 1..Len(tasks) : tasks[k].yielded

\* scrape_urls_parallel() returns
Join ==
    /\ main_pc = "scraping"
    /\ all_completed(futures)
    /\ main_pc' = "summarizing"
    /\ loop_index' = 0
    /\ UNCHANGED <<batch, futures, cache_dir, scraped_results, summarize_calls,
                   collected_summaries, synthesis_input, sequential_vars>>

\* scraped_for with the outcome of whichever URL comes first
scraped_for_any(results, url) == results[CHOOSE u \in DOMAIN results : TRUE]

\* scraped_results[url]
scraped_for(results, url) == results[url]

\* one pass of the summarization loop
SummarizeNext ==
    /\ main_pc = "summarizing"
    /\ loop_index < Len(batch)
    /\ LET result == batch[loop_index + 1]
           url == Get(result, "link", Lit(""))
       IN  IF url \in DOMAIN scraped_results /\ scraped_for(scraped_results, url)[1]
           THEN \E resp \in StGenResponses :
                  LET text == scraped_for(scraped_results, url)[2]
                      r == summarize_with_gemini(text, resp)
                  IN  /\ summarize_calls' =
                             Append(summarize_calls,
                                    [idx |-> loop_index, url |-> url, content |-> text,
                                     ret |-> r])
                      /\ collected_summaries' =
                             IF r[1]
                             THEN Append(collected_summaries,
                                         [title |-> Get(result, "title", Lit("No Title")),
                                          link |-> Get(result, "link", Lit("#")),
                                          summary |-> r[2]])
                             ELSE collected_summaries
           ELSE UNCHANGED <<summarize_calls, collected_summaries>>
    /\ loop_index' = loop_index + 1
    /\ main_pc' = main_pc
    /\ UNCHANGED <<batch, futures, cache_dir, scraped_results, synthesis_input,
                   sequential_vars>>

\* the synthesis, when there is something to combine
StSynthesis ==
    /\ main_pc = "summarizing"
    /\ loop_index = Len(batch)
    /\ synthesis_input' =
          [called |-> Len(collected_summaries) > 0, summaries |-> collected_summaries]
    /\ main_pc' = "done"
    /\ UNCHANGED <<batch, futures, cache_dir, scraped_results, loop_index, summarize_calls,
                   collected_summaries, sequential_vars>>

ParallelNext ==
    \/ \E b \in Batches, files \in CacheDirs : StartResearch(b, files)
    \/ \E k \in 1..Len(futures) : TaskStart(k)
    \/ \E k \in 1..Len(futures) : TaskExists(k)
    \/ \E k \in 1..Len(futures) : TaskOpenRead(k)
    \/ \E k \in 1..Len(futures) : TaskLoad(k)
    \/ \E k \in 1..Len(futures) : TaskRemove(k)
    \/ \E k \in 1..Len(futures), answer \in SiteAnswers : TaskFetch(k, answer)
    \/ \E k \in 1..Len(futures) : TaskOpenWrite(k)
    \/ \E k \in 1..Len(futures) : TaskSave(k)
    \/ \E k \in 1..Len(futures) : Collect(k)
    \/ Join
    \/ SummarizeNext
    \/ StSynthesis

Parallel == Init /\ [][ParallelNext]_vars

(***************************************************************************)
(* Properties of research().                                               *)
(***************************************************************************)
\* the hits the Result Fetcher returned to this run
Hits == calls[1].ret

\* the calls of one collaborator, in the order made
CallsOf(op) == SelectSeq(calls, LAMBDA c : c.op = op)

\* the calls of one collaborator for the hit of 0-based index idx
ItemCalls(op, idx) == SelectSeq(calls, LAMBDA c : c.op = op /\ c.idx = idx)

SynthCalls == CallsOf("create_comprehensive_summary")

\* research() has returned from a run in which the search found hits
ReturnedWithHits == pc = "done" /\ Hits # <<>>

\* C1: when the Result Fetcher returns zero hits, research() has returned
\* success=false, error="No search results found", results=[] and a null
\* comprehensive_summary, and neither scrape(), summarize() nor
\* create_comprehensive_summary() was called.
C1_NoHitsShortCircuit ==
    (calls # <<>> /\ Hits = <<>>) =>
        /\ pc = "done"
        /\ {"success", "error", "results", "comprehensive_summary"} \subseteq DOMAIN ret
        /\ ret.success = FALSE
        /\ ret.error = Lit("No search results found")
        /\ ret.results = <<>>
        /\ ret.comprehensive_summary = None
        /\ CallsOf("scrape") = <<>>
        /\ CallsOf("summarize") = <<>>
        /\ SynthCalls = <<>>

\* a run whose search found nothing has returned
C1_Witness ==
    /\ pc = "done"
    /\ Len(calls) = 1
    /\ Hits = <<>>
    /\ ret.error = Lit("No search results found")

\* C2: in a run with at least one hit, the returned success flag is true
\* exactly when some returned item has success=true, whatever the scrapes,
\* the summaries and the synthesis did.
C2_SuccessIffSomeItemSucceeded ==
    ReturnedWithHits =>
        (ret.success <=> \E k \in 1..Len(ret.results) : ret.results[k].success)

\* research() returned success=true from a run whose synthesis failed
C2_Witness ==
    /\ ReturnedWithHits
    /\ ret.success
    /\ \E k \in 1..Len(ret.results) : ret.results[k].success
    /\ SynthCalls # <<>>
    /\ ~SynthCalls[1].ret[1]

\* C3, the returned dict: comprehensive_summary is non-null exactly when the
\* synthesis input was non-empty and create_comprehensive_summary() reported
\* success; when it reported failure the field is null and the dict has no
\* error field.
C3_ReturnedSummary ==
    ReturnedWithHits =>
        /\ (ret.comprehensive_summary # None) <=>
               /\ successful_summaries # <<>>
               /\ SynthCalls # <<>>
               /\ SynthCalls[1].ret[1]
        /\ (SynthCalls # <<>> /\ ~SynthCalls[1].ret[1]) =>
               /\ ret.comprehensive_summary = None
               /\ "error" \notin DOMAIN ret

\* C3, the items: the synthesis step leaves the per-item results as they
\* were, and they are what research() returns.
C3_ItemsKept ==
    /\ (pc = "synthesize" /\ pc' = "return") => search_results' = search_results
    /\ (pc = "return" /\ pc' = "done") => ret'.results = search_results

\* C3: comprehensive_summary is non-null iff the synthesis input was
\* non-empty and the synthesis call reported success; a failed synthesis
\* leaves the field null, adds no error field to the result and leaves the
\* per-item results as they were.
C3_SynthesisAbsorbed == []C3_ReturnedSummary /\ [][C3_ItemsKept]_vars

\* research() returned from a run whose synthesis call failed
C3_Witness ==
    /\ ReturnedWithHits
    /\ SynthCalls # <<>>
    /\ ~SynthCalls[1].ret[1]
    /\ ret.comprehensive_summary = None
    /\ ret.results = search_results

\* the item stored for the hit of 0-based index idx has failed with `message`
ItemFailedWith(items, idx, message) ==
    /\ items[idx + 1].success = FALSE
    /\ "error" \in DOMAIN items[idx + 1]
    /\ items[idx + 1].error = message

\* every hit has a failed scrape() call
AllScrapesFailed ==
    \A k \in 1..Len(Hits) :
        \E p \in 1..Len(calls) :
            calls[p].op = "scrape" /\ calls[p].idx = k - 1 /\ ~calls[p].ret[1]

\* C4: a hit whose scrape() failed has an item with success=false and the
\* scraper's message as error, summarize() is never called for it, and when
\* every hit's scrape() failed create_comprehensive_summary() is not called.
C4_ScrapeFailure ==
    /\ \A p \in 1..Len(calls) :
         (calls[p].op = "scrape" /\ ~calls[p].ret[1]) =>
             /\ ItemFailedWith(search_results, calls[p].idx, calls[p].ret[2])
             /\ pc = "done" => ItemFailedWith(ret.results, calls[p].idx, calls[p].ret[2])
             /\ ItemCalls("summarize", calls[p].idx) = <<>>
    /\ (calls # <<>> /\ Hits # <<>> /\ AllScrapesFailed) => SynthCalls = <<>>

\* research() returned from a run of two hits whose scrapes both failed
C4_Witness ==
    /\ ReturnedWithHits
    /\ Len(Hits) = 2
    /\ AllScrapesFailed
    /\ ItemFailedWith(ret.results, 1, calls[3].ret[2])
    /\ ret.success = FALSE

\* the summarize() calls that succeeded
SuccessfulSummarizeCalls ==
    SelectSeq(calls, LAMBDA c : c.op = "summarize" /\ c.ret[1])

\* C5: a hit whose scrape() succeeded and whose summarize() failed has an
\* item with success=false and the summarizer's message as error, and the
\* synthesis input list only ever holds one entry per successful
\* summarize() call, so none for that hit.
C5_SummaryFailure ==
    /\ \A p \in 1..Len(calls) :
         (calls[p].op = "summarize" /\ ~calls[p].ret[1]) =>
             /\ ItemFailedWith(search_results, calls[p].idx, calls[p].ret[2])
             /\ pc = "done" => ItemFailedWith(ret.results, calls[p].idx, calls[p].ret[2])
             /\ "summary" \notin DOMAIN search_results[calls[p].idx + 1]
    /\ Len(successful_summaries) = Len(SuccessfulSummarizeCalls)
    /\ SynthCalls # <<>> => Len(SynthCalls[1].args[1]) = Len(SuccessfulSummarizeCalls)

\* research() returned from a run in which one summary failed after a
\* successful scrape and another hit succeeded
C5_Witness ==
    /\ ReturnedWithHits
    /\ \E p \in 1..Len(calls) :
         /\ calls[p].op = "summarize"
         /\ ~calls[p].ret[1]
         /\ ItemFailedWith(ret.results, calls[p].idx, calls[p].ret[2])
    /\ Len(successful_summaries) = 1
    /\ SynthCalls # <<>>

\* C6: in a run with n hits scrape() is called for every one of the n hits,
\* whatever the scrapes and summaries of the other hits did.
C6_NoFailFast ==
    ReturnedWithHits =>
        \A k \in 1..Len(Hits) : ItemCalls("scrape", k - 1) # <<>>

\* research() returned from a run in which the first hit failed and the
\* last hit succeeded
C6_Witness ==
    /\ ReturnedWithHits
    /\ Len(Hits) >= 2
    /\ ~ret.results[1].success
    /\ ret.results[Len(Hits)].success
    /\ ItemCalls("scrape", Len(Hits) - 1) # <<>>

\* C7: when the Result Fetcher returned n >= 1 hits, the returned results
\* have n items, and item k has the title, link and snippet of hit k.
C7_ItemsFollowHits ==
    ReturnedWithHits =>
        /\ Len(ret.results) = Len(Hits)
        /\ \A k \in 1..Len(Hits) :
             /\ ret.results[k].title = Hits[k].title
             /\ ret.results[k].link = Hits[k].link
             /\ ret.results[k].snippet = Hits[k].snippet

\* research() returned the items of two different hits
C7_Witness ==
    /\ ReturnedWithHits
    /\ Len(ret.results) = 2
    /\ Hits[1].title # Hits[2].title
    /\ Hits[1].snippet # Hits[1].title
    /\ ret.results[2].title = Hits[2].title

\* the returned items that succeeded, in the order returned
SuccessfulItems == SelectSeq(ret.results, LAMBDA item : item.success)

\* C8: create_comprehensive_summary() is called once when some item
\* succeeded and not at all otherwise, and its input is the {title, link,
\* summary} of the successful items, in ranking order, and nothing else.
C8_SynthesisOnceOverSuccesses ==
    ReturnedWithHits =>
        /\ Len(SynthCalls) = (IF SuccessfulItems # <<>> THEN 1 ELSE 0)
        /\ SynthCalls # <<>> =>
             SynthCalls[1].args[1] =
                 [k \in 1..Len(SuccessfulItems) |->
                     [title |-> SuccessfulItems[k].title,
                      link |-> SuccessfulItems[k].link,
                      summary |-> SuccessfulItems[k].summary]]

\* research() returned from a run that combined the summaries of two
\* different hits
C8_Witness ==
    /\ ReturnedWithHits
    /\ Len(SuccessfulItems) = 2
    /\ SuccessfulItems[1].title # SuccessfulItems[2].title
    /\ Len(SynthCalls) = 1
    /\ Len(SynthCalls[1].args[1]) = 2

\* the num_results the caller asked for
RequestedCount ==
    IF invocation.num_results = <<>> THEN 5 ELSE invocation.num_results[1]

\* C9: in one run get_top_results() is called once, with the query and the
\* requested count (5 when left out); scrape() is called once per hit, with
\* the hit's link; summarize() is called once for a hit whose scrape()
\* succeeded and not at all for the others.
C9_NoOrchestratorRetry ==
    pc = "done" =>
        /\ Len(CallsOf("get_top_results")) = 1
        /\ calls[1].op = "get_top_results"
        /\ calls[1].args = <<invocation.query, RequestedCount>>
        /\ Len(CallsOf("scrape")) = Len(Hits)
        /\ Len(CallsOf("summarize")) <= Len(Hits)
        /\ \A k \in 1..Len(Hits) :
             /\ Len(ItemCalls("scrape", k - 1)) = 1
             /\ ItemCalls("scrape", k - 1)[1].args = <<Hits[k].link>>
             /\ Len(ItemCalls("summarize", k - 1)) =
                    (IF ItemCalls("scrape", k - 1)[1].ret[1] THEN 1 ELSE 0)

\* research() returned from a run with a failed scrape for one hit and a
\* failed summary for another
C9_Witness ==
    /\ ReturnedWithHits
    /\ \E p \in 1..Len(calls) : calls[p].op = "scrape" /\ ~calls[p].ret[1]
    /\ \E p \in 1..Len(calls) : calls[p].op = "summarize" /\ ~calls[p].ret[1]
    /\ Len(CallsOf("scrape")) = Len(Hits)

\* before call number p, the hit of 1-based rank k was resolved: scraped,
\* and summarized if its scrape succeeded
ResolvedBefore(k, p) ==
    \E s \in 1..(p - 1) :
        /\ calls[s].op = "scrape"
        /\ calls[s].idx = k - 1
        /\ calls[s].ret[1] =>
               \E m \in (s + 1)..(p - 1) :
                   calls[m].op = "summarize" /\ calls[m].idx = k - 1

\* C10: the calls of a run are made one after the other in this order: the
\* search first; then, hit by hit in ranking order, the scrape followed by
\* the summary if there is one, each hit resolved before the next hit's
\* scrape; the synthesis last, after every hit is resolved.
C10_Sequential ==
    /\ \A p \in 1..Len(calls) : (calls[p].op = "get_top_results") <=> (p = 1)
    /\ \A p \in 1..Len(calls) :
         calls[p].op = "scrape" =>
             \A k \in 1..calls[p].idx : ResolvedBefore(k, p)
    /\ \A p \in 1..Len(calls) :
         calls[p].op = "summarize" =>
             /\ p > 1
             /\ calls[p - 1].op = "scrape"
             /\ calls[p - 1].idx = calls[p].idx
             /\ calls[p - 1].ret[1]
    /\ \A p \in 1..Len(calls) :
         calls[p].op = "create_comprehensive_summary" =>
             /\ p = Len(calls)
             /\ \A k \in 1..Len(Hits) : ResolvedBefore(k, p)
    /\ pc \in {"scrape", "summarize"} =>
         \A k \in 1..i : ResolvedBefore(k, Len(calls) + 1)

\* research() returned from a run of two hits, each scraped and summarized,
\* then combined
C10_Witness ==
    /\ ReturnedWithHits
    /\ Len(Hits) = 2
    /\ Len(calls) = 6
    /\ calls[2].op = "scrape" /\ calls[3].op = "summarize"
    /\ calls[4].op = "scrape" /\ calls[5].op = "summarize"
    /\ calls[6].op = "create_comprehensive_summary"

(***************************************************************************)
(* The shape of the dict research() returns.                               *)
(***************************************************************************)
\* C11: every dict research() returns, from a run without hits as well as
\* from a run with hits, has the fields success, query, results and
\* comprehensive_summary, and its query is the query passed in.
C11_ResultHasQuery ==
    pc = "done" =>
        /\ {"success", "query", "results", "comprehensive_summary"} \subseteq DOMAIN ret
        /\ ret.query = invocation.query

\* C29: every item of a returned result is in one of two shapes: success with
\* a summary and a content preview and no error, or failure with an error and
\* neither summary nor content.
C29_ItemShapes ==
    (pc = "done" /\ "results" \in DOMAIN ret) =>
        \A k \in 1..Len(ret.results) :
            LET item == ret.results[k]
                fields == DOMAIN item \cap {"summary", "content", "error"}
            IN  /\ "success" \in DOMAIN item
                /\ item.success \in BOOLEAN
                /\ item.success => fields = {"summary", "content"}
                /\ ~item.success => fields = {"error"}

\* a result holding an item of each shape
C29_Witness ==
    /\ pc = "done"
    /\ "results" \in DOMAIN ret
    /\ \E k \in 1..Len(ret.results) :
         ret.results[k].success /\ "content" \in DOMAIN ret.results[k]
    /\ \E k \in 1..Len(ret.results) :
         ~ret.results[k].success /\ "error" \in DOMAIN ret.results[k]


\* the requests caused so far are within the retry limits: at most 3 search
\* requests, at most 2 fetch requests for each hit, at most one
\* summarization call for each hit and at most one synthesis call
WithinBounds ==
    /\ sent.search <= 3
    /\ \A k \in 1..Len(sent.fetch) : sent.fetch[k] <= 2
    /\ \A k \in 1..Len(sent.summarize) : sent.summarize[k] <= 1
    /\ sent.synthesis <= 1

\* C30: every run of research() reaches its return and returns a result, and
\* on the way it sends at most 3 search requests, at most 2 fetch requests
\* for each hit, at most one summarization call for each hit and at most one
\* synthesis call.
C30_TerminatesWithinBounds ==
    /\ <>(pc = "done" /\ ret # Unbound)
    /\ []WithinBounds

\* every run of research() ends, by a return or by the exception that left
\* search(), and stays within the retry limits
EndsWithinBounds ==
    /\ <>((pc = "done" /\ ret # Unbound) \/ pc = "raised")
    /\ []WithinBounds

\* a run that returned after 3 search requests, 2 fetch requests for a hit,
\* a summary and the synthesis
ReturnedAtTheBounds ==
    /\ pc = "done"
    /\ sent.search = 3
    /\ \E k \in 1..Len(sent.fetch) : sent.fetch[k] = 2 /\ sent.summarize[k] = 1
    /\ sent.synthesis = 1

\* a run that search() left by an exception, after one request
RaisedInSearch == pc = "raised" /\ ret = Unbound /\ sent.search = 1


(***************************************************************************)
(* Properties of the components.                                           *)
(***************************************************************************)
\* the call made on its own was of this component
Ran(op) == run # Unbound /\ run.op = op

\* v is a (bool, str) pair
IsResultPair(v) == Len(v) = 2 /\ v[1] \in BOOLEAN /\ v[2].type = "str"

\* C12: whatever the provider does, an exception raised by the HTTP or
\* generation call included, search() returns a list and raises nothing,
\* scrape() returns a (bool, str) pair, and summarize() and
\* create_comprehensive_summary() return a (bool, str) pair whose flag is
\* false when the generation call raised or gave no text.
C12_NoExceptionEscapes ==
    /\ Ran("search") => ~run.out.raised /\ Len(run.out.ret) >= 0
    /\ Ran("scrape") => IsResultPair(run.out.ret)
    /\ (Ran("summarize") \/ Ran("create_comprehensive_summary")) =>
         /\ IsResultPair(run.out.ret)
         /\ run.provider[1].kind \in {"raise", "notext"} => ~run.out.ret[1]

\* the provider answered 401
Is401(r) == r.kind = "response" /\ r.code = 401

\* the provider answered 429
Is429(r) == r.kind = "response" /\ r.code = 429

\* the provider answered 200 with organic_results
IsOrganic(r) == r.kind = "response" /\ r.code = 200 /\ r.body = "organic"

\* C13: when the answer to request k of search() is 401, on whichever
\* attempt, search() returns the empty list, request k is the last request
\* it sent, and it slept only before the earlier retries, not after the 401.
C13_AuthFailureImmediate ==
    Ran("search") =>
        \A k \in 1..run.args.max_retries :
            (run.out.requests >= k /\ Is401(run.provider[k])) =>
                /\ ~run.out.raised
                /\ run.out.ret = <<>>
                /\ run.out.requests = k
                /\ Len(run.out.sleeps) = k - 1

\* a 401 answered the second of three allowed requests, after a 429, and a
\* page of results was waiting behind it
C13_Witness ==
    /\ Ran("search")
    /\ run.args.max_retries = 3
    /\ Is429(run.provider[1])
    /\ Is401(run.provider[2])
    /\ IsOrganic(run.provider[3]) /\ run.provider[3].organic # <<>>
    /\ run.out.requests = 2
    /\ run.out.sleeps = <<1>>
    /\ run.out.ret = <<>>

\* requests 1..k of the call were all answered 429
AllRateLimited(k) == \A j \in 1..k : Is429(run.provider[j])

\* C14: search() sends at most max_retries requests.  A 429 on the 0-indexed
\* attempt k that is not the last allowed one is followed by a wait of 2^k
\* seconds and another request.  The first 200 response with organic results
\* after nothing but 429s is what search() returns, and when the last
\* allowed attempt is rate-limited as well search() returns the empty list.
C14_RateLimitBackoff ==
    Ran("search") =>
        LET m == run.args.max_retries
        IN  /\ run.out.requests <= m
            /\ \A k \in 0..(m - 2) :
                 (run.out.requests >= k + 1 /\ Is429(run.provider[k + 1])) =>
                     /\ run.out.requests >= k + 2
                     /\ Len(run.out.sleeps) >= k + 1
                     /\ run.out.sleeps[k + 1] = 2 ^ k
            /\ \A k \in 1..m :
                 (AllRateLimited(k - 1) /\ IsOrganic(run.provider[k])) =>
                     /\ run.out.ret = run.provider[k].organic
                     /\ run.out.requests = k
                     /\ run.out.sleeps = [j \in 1..(k - 1) |-> 2 ^ (j - 1)]
            /\ (m >= 1 /\ AllRateLimited(m)) =>
                     /\ run.out.ret = <<>>
                     /\ run.out.requests = m
                     /\ run.out.sleeps = [j \in 1..(m - 1) |-> 2 ^ (j - 1)]

\* two 429s, waits of 1 and 2 seconds, then the results of the third request
C14_Witness ==
    /\ Ran("search")
    /\ run.args.max_retries = 3
    /\ AllRateLimited(2)
    /\ IsOrganic(run.provider[3]) /\ run.provider[3].organic # <<>>
    /\ run.out.ret = run.provider[3].organic
    /\ run.out.requests = 3
    /\ run.out.sleeps = <<1, 2>>

\* the provider answered an HTTP error status other than 401 and 429
IsHttpErrorStatus(r) == r.kind = "response" /\ r.code >= 400 /\ r.code \notin {401, 429}

\* the request failed without an HTTP status: a connection error or a
\* timeout was raised, or the body of a 200 response could not be parsed
IsTransportFailure(r) ==
    \/ r.kind = "exception"
    \/ r.kind = "response" /\ r.code = 200 /\ r.body = "unparsable"

\* C15 as stated: a failure of request k other than a 401 or a 429 (a
\* non-429 HTTP error status, a connection error, a timeout, an unparsable
\* body) is not retried: request k is the last one and search() returns the
\* empty list.
C15_OtherFailuresNotRetried ==
    Ran("search") =>
        \A k \in 1..run.args.max_retries :
            (/\ run.out.requests >= k
             /\ IsHttpErrorStatus(run.provider[k]) \/ IsTransportFailure(run.provider[k])) =>
                /\ run.out.requests = k
                /\ run.out.ret = <<>>

\* C15, amended: an HTTP error status other than 401 and 429 is not retried:
\* request k is the last one, no wait follows it and search() returns the
\* empty list.  A connection error, a timeout or an unparsable body on the
\* 0-indexed attempt k is retried after a wait of 2^k seconds while another
\* attempt is allowed, and ends search() with the empty list on the last
\* allowed attempt.
C15_OtherFailures ==
    Ran("search") =>
        LET m == run.args.max_retries
        IN  \A k \in 1..m :
              /\ (run.out.requests >= k /\ IsHttpErrorStatus(run.provider[k])) =>
                     /\ run.out.requests = k
                     /\ run.out.ret = <<>>
                     /\ Len(run.out.sleeps) = k - 1
              /\ (run.out.requests >= k /\ IsTransportFailure(run.provider[k]) /\ k < m) =>
                     /\ run.out.requests >= k + 1
                     /\ Len(run.out.sleeps) >= k
                     /\ run.out.sleeps[k] = 2 ^ (k - 1)
              /\ (run.out.requests >= k /\ IsTransportFailure(run.provider[k]) /\ k = m) =>
                     /\ run.out.requests = m
                     /\ run.out.ret = <<>>
                     /\ Len(run.out.sleeps) = m - 1

\* a connection error was retried after one second, and the 500 that
\* answered the retry ended the call although results were waiting
C15_Witness ==
    /\ Ran("search")
    /\ run.args.max_retries = 3
    /\ run.provider[1].kind = "exception"
    /\ IsHttpErrorStatus(run.provider[2])
    /\ IsOrganic(run.provider[3]) /\ run.provider[3].organic # <<>>
    /\ run.out.requests = 2
    /\ run.out.sleeps = <<1>>
    /\ run.out.ret = <<>>

\* the field of a raw organic result, or `default` when the provider left
\* it out or sent null
FieldOr(raw, key, default) ==
    IF key \in DOMAIN raw /\ raw[key] # None THEN raw[key] ELSE default

\* C16: the hits get_top_results() returns are as many as the provider's
\* organic results and in their order, and each has a non-null title, link
\* and snippet: the provider's value, or "No Title", "#", "No snippet
\* available" where the provider left the field out or sent null.
C16_HitsDefaulted ==
    (Ran("get_top_results") /\ ~run.out.raised) =>
        /\ Len(run.out.ret) = Len(run.out.raw)
        /\ \A k \in 1..Len(run.out.ret) :
             LET hit == run.out.ret[k]
                 raw == run.out.raw[k]
             IN  /\ DOMAIN hit = {"title", "link", "snippet"}
                 /\ hit.title # None /\ hit.link # None /\ hit.snippet # None
                 /\ hit.title = FieldOr(raw, "title", Lit("No Title"))
                 /\ hit.link = FieldOr(raw, "link", Lit("#"))
                 /\ hit.snippet = FieldOr(raw, "snippet", Lit("No snippet available"))

\* C17: every request search() sends asks for min(count, 10) results,
\* whatever count the caller gave, so never for more than 10; the
\* application's search_with_serpapi() sends the slider's count, which is
\* min(count, 10) as well.
C17_CountClamped ==
    /\ Ran("search") =>
         /\ run.out.params.num =
                (IF run.args.num_results <= 10 THEN run.args.num_results ELSE 10)
         /\ run.out.params.num <= 10
    /\ Ran("search_with_serpapi") =>
         /\ run.out.params.num =
                (IF run.args.num_results <= 10 THEN run.args.num_results ELSE 10)
         /\ run.out.params.num <= 10

\* search() was asked for 25 results and sent requests asking for 10
C17_Witness ==
    /\ Ran("search")
    /\ run.args.num_results = 25
    /\ run.out.requests >= 1
    /\ run.out.params.num = 10

\* the URL of the call has a scheme and a host
HasSchemeAndHost(u) == u.scheme # "" /\ u.netloc # ""

\* the path of the URL ends in an extension of the denylist
PathIsDenylisted(u) == Lower(u.ext) \in skip_extensions

\* C18: scrape() fails without sending a request for every URL that lacks a
\* scheme or a host and for every URL whose path ends in a denylisted
\* extension, a query string or a fragment after the path making no
\* difference; a URL with scheme and host whose path has no denylisted
\* extension is not skipped: scrape() fetches it.
C18_FailFast ==
    Ran("scrape") =>
        LET u == run.args.parts
        IN  /\ ~HasSchemeAndHost(u) => (run.out.requests = 0 /\ ~run.out.ret[1])
            /\ PathIsDenylisted(u) => (run.out.requests = 0 /\ ~run.out.ret[1])
            /\ (HasSchemeAndHost(u) /\ ~PathIsDenylisted(u) /\ run.args.max_retries >= 1) =>
                   run.out.requests >= 1

\* the message begins with the literal s
StartsWith(message, s) ==
    message.v # <<>> /\ message.v[1] = Chunk(s, Len(s))

\* the first answer the site gave was a 2xx response that is not HTML
FirstAnswerNotHtml ==
    /\ run.args.max_retries >= 1
    /\ run.provider[1].kind = "ok"
    /\ ~IsHtml(run.provider[1].ctype)

\* C19: for a URL with scheme and host, one ending in .pdf included, whose
\* fetch is answered by a 2xx response with a Content-Type that does not
\* contain text/html, scrape() returns failure with a message that begins
\* "Not an HTML page".
C19_NonHtmlRejected ==
    (Ran("scrape") /\ HasSchemeAndHost(run.args.parts) /\ FirstAnswerNotHtml) =>
        /\ ~run.out.ret[1]
        /\ StartsWith(run.out.ret[2], "Not an HTML page. Content-Type: ")

\* scrape() found the URL valid and not to be skipped, and went on to fetch
Fetched == _is_valid_url(run.args.url) /\ ~_should_skip_url(run.args.url)

\* C20: scrape() sends at most max_retries requests, and request k + 1 only
\* when request k timed out.  Any other outcome of request k (an HTTP error
\* status, a 2xx response that is not HTML, too many redirects, another
\* request error or exception) ends the call on that attempt, with failure.
\* When every one of the max_retries >= 1 requests times out, scrape()
\* returns (False, "Request timed out.") after exactly max_retries requests.
C20_RetryOnlyOnTimeout ==
    Ran("scrape") =>
        LET m == run.args.max_retries
        IN  /\ run.out.requests <= m
            /\ \A k \in 2..run.out.requests : run.provider[k - 1].kind = "timeout"
            /\ \A k \in 1..run.out.requests :
                 /\ run.provider[k].kind # "timeout" => run.out.requests = k
                 /\ (\/ run.provider[k].kind \in
                           {"http_error", "redirects", "request_exception", "exception"}
                     \/ run.provider[k].kind = "ok" /\ ~IsHtml(run.provider[k].ctype)) =>
                        ~run.out.ret[1]
            /\ (Fetched /\ m >= 1 /\ \A k \in 1..m : run.provider[k].kind = "timeout") =>
                 /\ run.out.ret = <<FALSE, Lit("Request timed out.")>>
                 /\ run.out.requests = m

\* both allowed requests timed out
C20_Witness ==
    /\ Ran("scrape")
    /\ run.args.max_retries = 2
    /\ run.provider[1].kind = "timeout" /\ run.provider[2].kind = "timeout"
    /\ run.out.requests = 2
    /\ run.out.ret = <<FALSE, Lit("Request timed out.")>>

\* the first answer the site gave was an HTML page
FirstAnswerHtml ==
    /\ run.args.max_retries >= 1
    /\ run.provider[1].kind = "ok"
    /\ IsHtml(run.provider[1].ctype)

\* C21: when the first answer is an HTML page whose cleaned text has length
\* L, scrape() returns failure after that one request when L < 100, returns
\* (True, the text) when 100 <= L <= 15000, and returns (True, the first
\* 15000 characters followed by "...") when L > 15000.
C21_ContentLength ==
    (Ran("scrape") /\ Fetched /\ FirstAnswerHtml) =>
        LET text == run.provider[1].text
            L == PyLen(text)
        IN  /\ L < 100 => (~run.out.ret[1] /\ run.out.requests = 1)
            /\ (100 <= L /\ L <= 15000) => run.out.ret = <<TRUE, text>>
            /\ L > 15000 =>
                 /\ run.out.ret[1]
                 /\ run.out.ret[2].v = <<Chunk(text.v[1].s, 15000), Chunk("...", 3)>>
                 /\ PyLen(run.out.ret[2]) = 15003

\* a page of 15001 characters came back as 15000 characters and the marker
C21_Witness ==
    /\ Ran("scrape")
    /\ Fetched
    /\ FirstAnswerHtml
    /\ PyLen(run.provider[1].text) = 15001
    /\ run.out.ret[1]
    /\ PyLen(run.out.ret[2]) = 15003

\* the way one call of generate_content ends, as summarize() tells them apart
GenOutcome(resp) ==
    CASE resp.kind = "raise" -> "raises"
      [] resp.kind = "notext" -> "lacks text"
      [] PyLen(resp.text) < 50 -> "text too short"
      [] OTHER -> "usable"

\* C22: summarize() succeeds exactly when the provider call returns a response
\* with text of at least 50 characters, and the messages of two failures
\* of different kinds (provider raises, response lacks text, text shorter than
\* 50 characters) are never the same string.
C22_SummarizeOutcomes ==
    Ran("summarize") =>
        LET resp == run.provider[1]
        IN  /\ run.out.ret[1] <=> (resp.kind = "text" /\ PyLen(resp.text) >= 50)
            /\ run.out.ret[1] => run.out.ret[2] = resp.text
            /\ ~run.out.ret[1] =>
                 \A other \in GenProbeResponses :
                     GenOutcome(other) \notin {"usable", GenOutcome(resp)} =>
                         summarize(run.args.content, run.args.query, run.args.is_brief,
                                   other)[2] # run.out.ret[2]

\* a call whose provider answer has 49 characters fails, one with 50 succeeds
C22_Witness ==
    /\ Ran("summarize")
    /\ run.provider[1].kind = "text"
    /\ PyLen(run.provider[1].text) = 49
    /\ ~run.out.ret[1]
    /\ run.out.ret[2] = Lit("Generated summary was too short or empty")

\* C23: whenever the provider returns a response with non-empty text,
\* summarize() returns success together with exactly that text, for the brief
\* and for the comprehensive length setting.
C23_NonEmptyTextIsSuccess ==
    (Ran("summarize") /\ run.provider[1].kind = "text" /\ PyLen(run.provider[1].text) > 0) =>
        run.out.ret = <<TRUE, run.provider[1].text>>

\* C24: one invocation of summarize() or create_comprehensive_summary() calls
\* the provider exactly once, whatever the call does, and its result is the one
\* of that single call; create_comprehensive_summary() succeeds with any
\* response that has text, however short.
C24_SingleProviderCall ==
    /\ Ran("summarize") =>
         /\ run.out.generate_calls = 1
         /\ run.out.ret = summarize(run.args.content, run.args.query, run.args.is_brief,
                                    run.provider[1])
    /\ Ran("create_comprehensive_summary") =>
         /\ run.out.generate_calls = 1
         /\ run.provider[1].kind # "text" => ~run.out.ret[1]
         /\ run.provider[1].kind = "text" => run.out.ret = <<TRUE, run.provider[1].text>>

\* the first call fails and a second one would have succeeded: summarize()
\* reports the failure; a synthesis answer of one character is a success
C24_Witness ==
    \/ /\ Ran("summarize")
       /\ run.provider[1].kind = "raise"
       /\ GenOutcome(run.provider[2]) = "usable"
       /\ ~run.out.ret[1]
    \/ /\ Ran("create_comprehensive_summary")
       /\ run.provider[1].kind = "text"
       /\ PyLen(run.provider[1].text) = 1
       /\ run.out.ret[1]

\* a key is available from the argument or from the environment
Available(arg, name) == Truthy(arg) \/ Truthy(run.provider[name])

\* C25: constructing the agent raises the ValueError naming the Gemini key
\* whenever no Gemini key is available from the argument or the environment,
\* also when the SerpAPI key is missing too; it raises the one naming the
\* SerpAPI key when only that key is missing; otherwise it succeeds, and a key
\* that was passed is the one kept, whatever the environment holds.
C25_Construction ==
    Ran("__init__") =>
        LET gemini == Available(run.args.gemini_key, "GEMINI_API_KEY")
            serpapi == Available(run.args.serpapi_key, "SERPAPI_KEY")
        IN  /\ ~gemini => /\ run.out.raised # None
                          /\ run.out.raised = Lit("Gemini API key is required. Set GEMINI_API_KEY environment variable or pass it directly.")
            /\ (gemini /\ ~serpapi) =>
                  /\ run.out.raised # None
                  /\ run.out.raised = Lit("SerpAPI key is required. Set SERPAPI_KEY environment variable or pass it directly.")
            /\ (gemini /\ serpapi) =>
                  /\ run.out.raised = None
                  /\ Truthy(run.args.gemini_key) =>
                        /\ run.out.gemini_key = run.args.gemini_key
                        /\ run.out.summarizer.api_key = run.args.gemini_key
                  /\ Truthy(run.args.serpapi_key) =>
                        /\ run.out.serpapi_key = run.args.serpapi_key
                        /\ run.out.search_tool.api_key = run.args.serpapi_key
                  /\ ~Truthy(run.args.gemini_key) =>
                        run.out.gemini_key = run.provider["GEMINI_API_KEY"]
                  /\ ~Truthy(run.args.serpapi_key) =>
                        run.out.serpapi_key = run.provider["SERPAPI_KEY"]

\* both keys are passed while the environment holds other keys, and the agent
\* keeps the passed ones
C25_Witness ==
    /\ Ran("__init__")
    /\ Truthy(run.args.gemini_key) /\ Truthy(run.provider["GEMINI_API_KEY"])
    /\ Truthy(run.args.serpapi_key) /\ Truthy(run.provider["SERPAPI_KEY"])
    /\ run.out.raised = None
    /\ run.out.gemini_key = run.args.gemini_key

(***************************************************************************)
(* Properties of the concurrent extraction.                                *)
(***************************************************************************)
\* main() is past scrape_urls_parallel()
PastJoin == main_pc \in {"summarizing", "done"}

\* C26: no summarization call is made before every submitted extraction task
\* has completed, whatever the interleaving of the workers, and once
\* scrape_urls_parallel() has returned every submitted URL has an entry in the
\* collected results, which is the outcome of a task for that URL.
C26_JoinBeforeSummaries ==
    /\ Len(summarize_calls) > 0 =>
          \A k \in 1..Len(futures) : futures[k].state = "done"
    /\ PastJoin =>
          \A k \in 1..Len(futures) :
              /\ futures[k].state = "done"
              /\ futures[k].url \in DOMAIN scraped_results
              /\ \E j \in 1..Len(futures) :
                    /\ futures[j].url = futures[k].url
                    /\ scraped_results[futures[k].url] =
                          (IF futures[j].raised
                           THEN <<FALSE, Concat(Lit("Error: "), futures[j].result[2])>>
                           ELSE futures[j].result)

\* more tasks than workers were submitted, one of them failed, one raised,
\* and a summary was made
C26_Witness ==
    /\ Len(futures) > max_workers
    /\ \E k \in 1..Len(futures) :
          futures[k].state = "done" /\ ~futures[k].result[1] /\ ~futures[k].raised
    /\ \E k \in 1..Len(futures) : futures[k].state = "done" /\ futures[k].raised
    /\ Len(summarize_calls) > 0

\* the summarization calls that succeeded
SuccessfulCalls == SelectSeq(summarize_calls, LAMBDA c : c.ret[1])

\* C27: whatever the order in which the tasks complete, the hits are
\* summarized in ranking order, each with the content a task for its own URL
\* extracted, also when two hits have the same URL; the synthesis input lists
\* the successful summaries in ranking order; and in the end every hit whose
\* URL was extracted has been summarized.
C27_RankingOrderAndPairing ==
    /\ \A c \in 1..Len(summarize_calls) :
          LET call == summarize_calls[c]
              hit == batch[call.idx + 1]
          IN  /\ c > 1 => summarize_calls[c - 1].idx < call.idx
              /\ "link" \in DOMAIN hit
              /\ hit.link = call.url
              /\ \E k \in 1..Len(futures) :
                    /\ futures[k].url = hit.link
                    /\ futures[k].state = "done"
                    /\ futures[k].result = <<TRUE, call.content>>
    /\ collected_summaries =
          [c \in 1..Len(SuccessfulCalls) |->
              [title |-> batch[SuccessfulCalls[c].idx + 1].title,
               link |-> SuccessfulCalls[c].url,
               summary |-> SuccessfulCalls[c].ret[2]]]
    /\ main_pc = "done" =>
          /\ \A k \in 1..Len(batch) :
                ("link" \in DOMAIN batch[k] /\ scraped_results[batch[k].link][1]) =>
                    \E c \in 1..Len(summarize_calls) : summarize_calls[c].idx = k - 1
          /\ synthesis_input.called = (Len(collected_summaries) > 0)
          /\ synthesis_input.summaries = collected_summaries

\* two hits have the same URL, the two tasks for it ended differently, both
\* hits were summarized, and a hit of another URL was summarized between them
C27_Witness ==
    /\ main_pc = "done"
    /\ \E j, k \in 1..Len(futures) :
          /\ j < k
          /\ futures[j].url = futures[k].url
          /\ futures[j].result[1] # futures[k].result[1]
    /\ \E a, b, c \in 1..Len(summarize_calls) :
          /\ a < b /\ b < c
          /\ summarize_calls[a].url = summarize_calls[c].url
          /\ summarize_calls[b].url # summarize_calls[a].url

\* C28: the extraction tasks of a batch share no mutable state: no two of them
\* read or write the same file of the cache, also when the batch holds the
\* same URL more than once, and at most 3 of them run at the same time.
C28_NoSharedState ==
    /\ \A j, k \in 1..Len(futures) :
          j # k =>
              \A a \in futures[j].touched, b \in futures[k].touched : a.path # b.path
    /\ Cardinality(Running) <= 3

====
